---- MODULE Spec2Model ----
(***************************************************************************)
(* Model of plugins/modules/jail_fstab.py (main and its nested             *)
(* get_iocroot) together with the middleware collaborator it calls         *)
(* through plugins/module_utils/middleware.py.                             *)
(*                                                                         *)
(* Path strings the code inspects character by character (mount points,    *)
(* the iocage root, the jail name) are sequences of one-character strings; *)
(* strings the code only carries around (src, fstype, options) are plain   *)
(* strings.  Python's None is the record None below.                       *)
(***************************************************************************)
EXTENDS Integers, Sequences, FiniteSets, TLC

VARIABLES
    pc,          \* position of main(): client, get_root, list, loop, finish, done, failed
    run,         \* which process this is: "first" or "second"
    jail,        \* module.params['jail']
    fstab,       \* module.params['fstab'] : the desired list
    append,      \* module.params['append']
    check_mode,  \* module.check_mode
    mwRoot,      \* what jail.get_iocroot answers when it succeeds
    mwFstab,     \* the jail's fstab as the middleware holds it
    iocroot,     \* the module-level global of jail_fstab.py
    fstab_info,  \* main's local: the (filtered) answer of jail.fstab LIST
    result,      \* main's result dict
    changes,     \* main's list of changes
    i,           \* index of the next element of fstab the for loop visits
    calls,       \* every middleware call this process has issued, in order
    rets         \* every value get_iocroot() has returned in this process

vars == <<pc, run, jail, fstab, append, check_mode, mwRoot, mwFstab, iocroot,
          fstab_info, result, changes, i, calls, rets>>

-----------------------------------------------------------------------------
(* Bounds of the model *)

MaxDesired == 2
MaxObserved == 2

-----------------------------------------------------------------------------
(* Values *)

None == [some |-> FALSE, val |-> <<>>]

Some(s) == [some |-> TRUE, val |-> s]

\* str(x) as an f-string formats it: a string is itself, None is "None"
Str(x) == IF x.some THEN x.val ELSE <<"N", "o", "n", "e">>

\* s.startswith("/")
StartsWithSlash(s) == Len(s) > 0 /\ s[1] = "/"

JailNames == { <<"j", "1">> }

Roots == { <<"/", "p">> }

RawTargets == { <<"/", "a">>, <<"d">>, <<".", "/", "d">> }

\* one element of the fstab parameter, with the argument_spec defaults
MountSpec(src, mount, options) ==
    [src |-> src, mount |-> mount, fstype |-> "nullfs", options |-> options,
     dump |-> 0, fsck_pass |-> 0]

DesiredSpecs == { MountSpec("/mnt/data", m, "ro") : m \in RawTargets }

\* the composition applied to every mount, absolute ones included
mount_full_always(mount, root, jailname) ==
    Str(root) \o <<"/", "j", "a", "i", "l", "s", "/">> \o jailname
    \o <<"/", "r", "o", "o", "t", "/">> \o mount

\* f"{get_iocroot()}/jails/{jail}/root/{fs['mount']}" for a relative mount,
\* the mount itself when it starts with "/"
mount_full(mount, root, jailname) ==
    IF StartsWithSlash(mount)
    THEN mount
    ELSE Str(root) \o <<"/", "j", "a", "i", "l", "s", "/">> \o jailname
         \o <<"/", "r", "o", "o", "t", "/">> \o mount

\* v['entry'] of one element of the LIST answer
Entry(src, mount, options) == <<src, mount, "nullfs", options, 0, 0>>

ObservedItems(root, jailname) ==
    LET abs == <<"/", "a">>
        rel == mount_full(<<"d">>, Some(root), jailname)
        other == <<"/", "z">>
    IN    { [type |-> "USER", entry |-> Entry("/mnt/data", t, "ro")] :
              t \in {abs, rel, other} }
     \cup { [type |-> "USER", entry |-> Entry("/mnt/data", t, "rw")] :
              t \in {abs, rel} }
     \cup { [type |-> "SYSTEM", entry |-> Entry("/mnt/data", t, "ro")] :
              t \in {abs, rel} }

SeqsUpTo(S, n) == UNION { [1..k -> S] : k \in 0..n }

\* the LIST answer: key -> {type, entry}, in the middleware's order
Keyed(items) == [k \in 1..Len(items) |->
                    [key |-> k, type |-> items[k].type, entry |-> items[k].entry]]

-----------------------------------------------------------------------------
(* The code *)

\* an element of changes: { action: <action>, entry: <entry> }, with the
\* resolved mount point and the key of the observed entry it is about
Op(action, fs, full, id) == [action |-> action, entry |-> fs, mount_full |-> full, id |-> id]

\* get_iocroot() without the "return cached value" test
get_iocroot_uncached(cache, reply) ==
    IF reply.some
    THEN [ret |-> reply, cache |-> reply, called |-> TRUE, ok |-> TRUE]
    ELSE [ret |-> None, cache |-> cache, called |-> TRUE, ok |-> FALSE]

\* get_iocroot(): cache is the global, reply what jail.get_iocroot would
\* answer (None when the call raises)
get_iocroot(cache, reply) ==
    IF cache.some
    THEN [ret |-> cache, cache |-> cache, called |-> FALSE, ok |-> TRUE]
    ELSE IF reply.some
         THEN [ret |-> reply, cache |-> reply, called |-> TRUE, ok |-> TRUE]
         ELSE [ret |-> None, cache |-> cache, called |-> TRUE, ok |-> FALSE]

IocrootCall(ok) == [func |-> "jail.get_iocroot", action |-> "", id |-> 0, ok |-> ok]

ListCall(ok) == [func |-> "jail.fstab", action |-> "LIST", id |-> 0, ok |-> ok]

\* what mw.call("jail.get_iocroot", output='str') may give: the root, or an
\* exception of any kind, which get_iocroot turns into None
Replies == {None, Some(mwRoot)}

\* the LIST answer kept as it came, SYSTEM entries included
FilterUserKeepAll(info) == info

\* {k: v for (k, v) in fstab_info.items() if v['type'] == "USER"}
FilterUser(info) == SelectSeq(info, LAMBDA v : v.type = "USER")

\* next((v['entry'] for (k, v) in fstab_info.items()
\*       if v['entry'][1] == mount_full), None)
FindEntry(info, full) ==
    LET hits == SelectSeq(info, LAMBDA v : v.entry[2] = full)
    IN  IF Len(hits) = 0 THEN None ELSE Some(hits[1].entry)

\* an iteration that asks for an ADD whether or not the entry exists
LoopChangesAlwaysAdd(fs, full, entry) == <<Op("ADD", fs, full, 0)>>

\* what one iteration of the loop adds to changes
LoopChanges(fs, full, entry) == <<>>

\* what the append / not append branch adds to changes
FinalChanges(app, info) == <<>>

\* the not-append branch removing every listed entry at once, check mode or not
FinishCallsRemove(app, chk, info, chg) ==
    IF app THEN <<>>
    ELSE [n \in 1..Len(info) |->
            [func |-> "jail.fstab", action |-> "REMOVE", id |-> info[n].key, ok |-> TRUE]]

\* the middleware calls issued after the loop, before exit_json
FinishCalls(app, chk, info, chg) == <<>>

\* what a sequence of jail.fstab calls does to the middleware's fstab
RECURSIVE MwEffect(_, _)
MwEffect(obs, issued) ==
    IF Len(issued) = 0 THEN obs
    ELSE LET c == Head(issued)
             after == IF c.func = "jail.fstab" /\ c.action = "REMOVE" /\ c.ok
                      THEN SelectSeq(obs, LAMBDA v : v.key # c.id)
                      ELSE obs
         IN  MwEffect(after, Tail(issued))

Line(t, v) == [t |-> t, v |-> v]

InitialResult == [changed |-> FALSE, msg |-> <<>>, iocroot |-> None, fstab |-> <<>>]

ProcessStart ==
    /\ pc = "client"
    /\ iocroot = None
    /\ fstab_info = <<>>
    /\ result = InitialResult
    /\ changes = <<>>
    /\ i = 1
    /\ calls = <<>>
    /\ rets = <<>>

Init ==
    /\ run = "first"
    /\ jail \in JailNames
    /\ mwRoot \in Roots
    /\ fstab \in SeqsUpTo(DesiredSpecs, MaxDesired)
    /\ append \in BOOLEAN
    /\ check_mode \in BOOLEAN
    /\ mwFstab \in { Keyed(s) : s \in SeqsUpTo(ObservedItems(mwRoot, jail), MaxObserved) }
    /\ ProcessStart

\* mw = MW.client(): the middleware is taken at its interface, a collaborator
\* whose every use may raise
GetClient ==
    /\ pc = "client"
    /\ pc' = "get_root"
    /\ UNCHANGED <<run, jail, fstab, append, check_mode, mwRoot, mwFstab, iocroot,
                   fstab_info, result, changes, i, calls, rets>>

\* MW.client() raises: main ends with the exception, before any call
ClientRaises ==
    /\ pc = "client"
    /\ pc' = "failed"
    /\ UNCHANGED <<run, jail, fstab, append, check_mode, mwRoot, mwFstab, iocroot,
                   fstab_info, result, changes, i, calls, rets>>

\* result['iocroot'] = get_iocroot()
GetRoot ==
    /\ pc = "get_root"
    /\ \E reply \in Replies :
         LET g == get_iocroot(iocroot, reply) IN
         /\ iocroot' = g.cache
         /\ result' = [result EXCEPT !.iocroot = g.ret]
         /\ calls' = IF g.called THEN Append(calls, IocrootCall(g.ok)) ELSE calls
         /\ rets' = Append(rets, g.ret)
    /\ pc' = "list"
    /\ UNCHANGED <<run, jail, fstab, append, check_mode, mwRoot, mwFstab,
                   fstab_info, changes, i>>

\* fstab_info = mw.call("jail.fstab", jail, {"action": "LIST"}), filtered
ListFstab ==
    /\ pc = "list"
    /\ calls' = Append(calls, ListCall(TRUE))
    /\ fstab_info' = FilterUser(mwFstab)
    /\ result' = [result EXCEPT !.fstab = FilterUser(mwFstab)]
    /\ pc' = IF Len(fstab) = 0 THEN "finish" ELSE "loop"
    /\ UNCHANGED <<run, jail, fstab, append, check_mode, mwRoot, mwFstab,
                   iocroot, changes, i, rets>>

\* the LIST call raises: module.fail_json
ListFails ==
    /\ pc = "list"
    /\ calls' = Append(calls, ListCall(FALSE))
    /\ pc' = "failed"
    /\ UNCHANGED <<run, jail, fstab, append, check_mode, mwRoot, mwFstab,
                   iocroot, fstab_info, result, changes, i, rets>>

\* one iteration of "for fs in fstab"
CheckEntry ==
    /\ pc = "loop"
    /\ i <= Len(fstab)
    /\ LET fs == fstab[i] IN
       \E reply \in Replies :
         LET rel == ~StartsWithSlash(fs.mount)
             g == get_iocroot(iocroot, reply)
             full == mount_full(fs.mount, g.ret, jail)
             entry == FindEntry(fstab_info, full)
         IN
         /\ iocroot' = IF rel THEN g.cache ELSE iocroot
         /\ calls' = IF rel /\ g.called THEN Append(calls, IocrootCall(g.ok)) ELSE calls
         /\ rets' = IF rel THEN Append(rets, g.ret) ELSE rets
         /\ result' = [result EXCEPT !.msg = @ \o
                         << Line("Checking", fs.mount),
                            Line("mount_full", full),
                            Line(IF entry.some THEN "This entry exists"
                                               ELSE "No such entry", <<>>) >>]
         /\ changes' = changes \o LoopChanges(fs, full, entry)
    /\ i' = i + 1
    /\ pc' = IF i = Len(fstab) THEN "finish" ELSE "loop"
    /\ UNCHANGED <<run, jail, fstab, append, check_mode, mwRoot, mwFstab, fstab_info>>

\* if append: ... else: ...; module.exit_json(**result)
Finish ==
    /\ pc = "finish"
    /\ changes' = changes \o FinalChanges(append, fstab_info)
    /\ result' = [result EXCEPT !.msg = Append(@,
                     Line(IF append THEN "Other fs-es may exist"
                                    ELSE "Ought to delete other fs-es", <<>>))]
    /\ LET issued == FinishCalls(append, check_mode, fstab_info, changes') IN
         /\ calls' = calls \o issued
         /\ mwFstab' = MwEffect(mwFstab, issued)
    /\ pc' = "done"
    /\ UNCHANGED <<run, jail, fstab, append, check_mode, mwRoot,
                   iocroot, fstab_info, i, rets>>

-----------------------------------------------------------------------------
(* The caller: applies the reported plan through the middleware's ADD,    *)
(* REPLACE and REMOVE forms, then runs the module again in a new process. *)

EntryOf(fs, full) == <<fs.src, full, fs.fstype, fs.options, fs.dump, fs.fsck_pass>>

FreshKey(obs) == IF Len(obs) = 0 THEN 1
                 ELSE 1 + CHOOSE k \in {obs[n].key : n \in 1..Len(obs)} :
                            \A n \in 1..Len(obs) : obs[n].key <= k

ApplyOp(obs, op) ==
    CASE op.action = "ADD" ->
           Append(obs, [key |-> FreshKey(obs), type |-> "USER",
                        entry |-> EntryOf(op.entry, op.mount_full)])
      [] op.action = "REPLACE" ->
           [n \in 1..Len(obs) |->
              IF obs[n].key = op.id
              THEN [obs[n] EXCEPT !.entry = EntryOf(op.entry, op.mount_full)]
              ELSE obs[n]]
      [] op.action = "REMOVE" ->
           SelectSeq(obs, LAMBDA v : v.key # op.id)

RECURSIVE ApplyPlan(_, _)
ApplyPlan(obs, plan) ==
    IF Len(plan) = 0 THEN obs
    ELSE ApplyPlan(ApplyOp(obs, Head(plan)), Tail(plan))

Rerun ==
    /\ pc = "done"
    /\ run = "first"
    /\ run' = "second"
    /\ mwFstab' = IF check_mode THEN mwFstab ELSE ApplyPlan(mwFstab, changes)
    /\ pc' = "client"
    /\ iocroot' = None
    /\ fstab_info' = <<>>
    /\ result' = InitialResult
    /\ changes' = <<>>
    /\ i' = 1
    /\ calls' = <<>>
    /\ rets' = <<>>
    /\ UNCHANGED <<jail, fstab, append, check_mode, mwRoot>>

Next == GetClient \/ ClientRaises \/ GetRoot \/ ListFstab \/ ListFails \/ CheckEntry \/ Finish \/ Rerun

Spec == Init /\ [][Next]_vars

-----------------------------------------------------------------------------
(* Path resolution on its own: the loop body entered with the root cached *)
(* and an empty fstab, over a wider set of strings.                       *)

WideRawTargets ==
    { <<>>, <<"/">>, <<"/", "a">>, <<"a">>, <<"a", "/", "/", "b">>,
      <<".", ".", "/", "a">>, <<"/", "a", "/", ".", ".", "/", "b">>,
      <<"d", "a", "t", "a", "/", "m", "o", "r", "e">> }

WideRoots ==
    { <<>>, <<"/", "p">>, <<"/", "p", "/">>,
      <<"/", "m", "n", "t", "/", "p", "o", "o", "l", "/", "i", "o", "c", "a", "g", "e">> }

WideJailNames == { <<"j", "1">>, <<"w", "w", "w">> }

InitResolve ==
    /\ run = "first"
    /\ jail \in WideJailNames
    /\ mwRoot \in WideRoots
    /\ fstab \in { <<MountSpec("/mnt/data/more-data", m, "ro")>> : m \in WideRawTargets }
    /\ append = FALSE
    /\ check_mode = FALSE
    /\ mwFstab = <<>>
    /\ pc = "loop"
    /\ iocroot = Some(mwRoot)
    /\ fstab_info = <<>>
    /\ result = [InitialResult EXCEPT !.iocroot = Some(mwRoot)]
    /\ changes = <<>>
    /\ i = 1
    /\ calls = <<IocrootCall(TRUE), ListCall(TRUE)>>
    /\ rets = <<Some(mwRoot)>>

SpecResolve == InitResolve /\ [][CheckEntry]_vars

-----------------------------------------------------------------------------
(* What the claims speak of *)

Indices(sq) == 1..Len(sq)

\* the target a desired spec stands for, given the jail root and name
ResolvedTarget(fs) ==
    IF fs.mount # <<>> /\ Head(fs.mount) = "/"
    THEN fs.mount
    ELSE mwRoot \o <<"/", "j", "a", "i", "l", "s", "/">> \o jail
         \o <<"/", "r", "o", "o", "t", "/">> \o fs.mount

UserIndices == { n \in Indices(mwFstab) : mwFstab[n].type = "USER" }

SystemIndices == { n \in Indices(mwFstab) : mwFstab[n].type = "SYSTEM" }

\* the first USER entry with the spec's target, 0 when there is none
MatchOf(fs) ==
    LET hits == { n \in UserIndices : mwFstab[n].entry[2] = ResolvedTarget(fs) }
    IN  IF hits = {} THEN 0 ELSE CHOOSE n \in hits : \A m \in hits : n <= m

Matched(n) == \E j \in Indices(fstab) : mwFstab[n].entry[2] = ResolvedTarget(fstab[j])

DiffCount(fs, e) ==
    Cardinality({ f \in {"src", "fstype", "options", "dump", "fsck_pass"} :
        \/ f = "src" /\ fs.src # e[1]
        \/ f = "fstype" /\ fs.fstype # e[3]
        \/ f = "options" /\ fs.options # e[4]
        \/ f = "dump" /\ fs.dump # e[5]
        \/ f = "fsck_pass" /\ fs.fsck_pass # e[6] })

OpsWith(action, id) ==
    { k \in Indices(changes) : changes[k].action = action /\ changes[k].id = id }

OpsFor(action, fs) ==
    { k \in Indices(changes) : changes[k].action = action /\ changes[k].entry = fs }

\* the desired and observed fstab differ so that an operation is required
NeedsOperation ==
    \/ \E j \in Indices(fstab) :
         \/ MatchOf(fstab[j]) = 0
         \/ MatchOf(fstab[j]) # 0
            /\ DiffCount(fstab[j], mwFstab[MatchOf(fstab[j])].entry) > 0
    \/ ~append /\ \E n \in UserIndices : ~Matched(n)

\* the three lines iteration j of the loop has written to result['msg']
Processed == { j \in Indices(fstab) : 3 * j <= Len(result.msg) }

ResolvedLine(j) == result.msg[3 * j - 1].v

FoundLine(j) == result.msg[3 * j].t = "This entry exists"

IocrootCalls(ok) ==
    { k \in Indices(calls) : calls[k].func = "jail.get_iocroot" /\ calls[k].ok = ok }

-----------------------------------------------------------------------------
(* The claims *)

\* C1: when the run has finished, every observed USER entry that no desired
\* spec resolves to has no REMOVE under append=true and exactly one
\* REMOVE(entryId) under append=false, and a matched entry has no REMOVE.
AppendDecidesRemoval ==
    pc = "done" =>
      \A n \in UserIndices :
        Cardinality(OpsWith("REMOVE", mwFstab[n].key)) =
          IF ~Matched(n) /\ ~append THEN 1 ELSE 0

\* C2: a SYSTEM entry is never kept in the filtered fstab, is never what a
\* desired spec is matched against (an iteration reports "This entry exists"
\* exactly when a USER entry has the resolved target), and is the target of
\* no operation.
SystemEntriesInert ==
    /\ \A n \in Indices(fstab_info) : fstab_info[n].type = "USER"
    /\ \A n \in Indices(result.fstab) : result.fstab[n].type = "USER"
    /\ \A j \in Processed :
         FoundLine(j) <=> \E n \in UserIndices : mwFstab[n].entry[2] = ResolvedLine(j)
    /\ \A k \in Indices(changes) : \A n \in SystemIndices :
         changes[k].action = "ADD" \/ changes[k].id # mwFstab[n].key

\* C2 witness: a finished run in which a SYSTEM entry has the resolved target
\* of a desired spec, no USER entry has it, and the spec was reported unmatched
SystemEntryShadowsTarget ==
    /\ pc = "done"
    /\ \E j \in Processed :
         /\ \E n \in SystemIndices : mwFstab[n].entry[2] = ResolvedLine(j)
         /\ ~FoundLine(j)

\* C3: when the run has finished, a desired spec whose resolved target is that
\* of an observed USER entry and which differs from it in exactly one other
\* field has exactly one REPLACE(spec, matchedId), no ADD and no REMOVE.
OneFieldOffGivesReplace ==
    pc = "done" =>
      \A j \in Indices(fstab) :
        LET fs == fstab[j]
            n == MatchOf(fs)
        IN  ( /\ n # 0
              /\ DiffCount(fs, mwFstab[n].entry) = 1
              /\ \A h \in Indices(fstab) : h # j => ResolvedTarget(fstab[h]) # ResolvedTarget(fs) )
            => /\ Cardinality(OpsWith("REPLACE", mwFstab[n].key) \cap OpsFor("REPLACE", fs)) = 1
               /\ OpsFor("ADD", fs) = {}
               /\ OpsWith("REMOVE", mwFstab[n].key) = {}

\* C4: when the run has finished, every desired spec whose resolved target is
\* that of no observed USER entry has an ADD(spec) in the plan, and one desired
\* spec against an empty fstab gives exactly [ADD(spec)].
UnmatchedSpecIsAdded ==
    pc = "done" =>
      /\ \A j \in Indices(fstab) : MatchOf(fstab[j]) = 0 => OpsFor("ADD", fstab[j]) # {}
      /\ (Len(fstab) = 1 /\ mwFstab = <<>>)
           => (Len(changes) = 1 /\ changes[1].action = "ADD" /\ changes[1].entry = fstab[1])

ChangedIffOperations ==
    pc = "done" =>
      /\ result.changed <=> (Len(changes) > 0)
      /\ result.changed <=> NeedsOperation

\* C7: once a jail.get_iocroot call has failed, the run does not complete, no
\* resolved target is composed from the missing root, and no plan is built.
FailedLookupAborts ==
    IocrootCalls(FALSE) # {} =>
      /\ pc # "done"
      /\ \A j \in Processed :
           ~StartsWithSlash(fstab[j].mount) =>
             SubSeq(ResolvedLine(j), 1, 4) # <<"N", "o", "n", "e">>

\* C8: in one process at most one jail.get_iocroot call succeeds, and the
\* cache is empty exactly while none has ...
CacheState ==
    /\ Cardinality(IocrootCalls(TRUE)) <= 1
    /\ iocroot.some <=> IocrootCalls(TRUE) # {}
    /\ iocroot.some => iocroot.val = mwRoot

\* ... and every access either returns the cached value without a call, or,
\* with the cache empty, issues one call whose failure leaves the cache empty
\* and whose success fills it with the value returned.
CacheStep ==
    (run' = run /\ Len(rets') > Len(rets)) =>
      /\ Len(rets') = Len(rets) + 1
      /\ IF iocroot.some
         THEN /\ calls' = calls
              /\ iocroot' = iocroot
              /\ rets'[Len(rets')] = iocroot
         ELSE /\ Len(calls') = Len(calls) + 1
              /\ calls'[Len(calls')].func = "jail.get_iocroot"
              /\ IF calls'[Len(calls')].ok
                 THEN iocroot'.some /\ rets'[Len(rets')] = iocroot'
                 ELSE ~iocroot'.some /\ ~rets'[Len(rets')].some

\* C8: once a jail.get_iocroot call has succeeded its value is returned by
\* every later access of the process and no further call is issued; a failed
\* call leaves the cache empty and the next access looks up again; at most one
\* lookup succeeds per process.
LookupMemoized == [](CacheState) /\ [][CacheStep]_vars

\* C8 witness: a failed lookup, then a retry that succeeds, then an access
\* served from the cache with no further call
RetryThenReuse ==
    /\ Len(rets) = 3
    /\ ~rets[1].some /\ rets[2].some /\ rets[3] = rets[2]
    /\ Cardinality(IocrootCalls(TRUE)) = 1
    /\ Cardinality(IocrootCalls(FALSE)) = 1

\* C9: the resolved target of a raw target beginning with "/" is the raw
\* target itself whatever the jail root and name, and of any other raw target
\* it is jailRoot + "/jails/" + jailName + "/root/" + rawTarget, character for
\* character.
ResolveAgrees ==
    pc = "finish" =>
      LET raw == fstab[1].mount
          out == ResolvedLine(1)
          a == Len(mwRoot)
          b == a + 7 + Len(jail)
      IN  IF raw # <<>> /\ Head(raw) = "/"
          THEN out = raw
          ELSE /\ Len(out) = b + 6 + Len(raw)
               /\ SubSeq(out, 1, a) = mwRoot
               /\ SubSeq(out, a + 1, a + 7) = <<"/", "j", "a", "i", "l", "s", "/">>
               /\ SubSeq(out, a + 8, b) = jail
               /\ SubSeq(out, b + 1, b + 6) = <<"/", "r", "o", "o", "t", "/">>
               /\ SubSeq(out, b + 7, Len(out)) = raw

\* C9 witness: data/more under /mnt/pool/iocage and jail j1 has resolved to
\* /mnt/pool/iocage/jails/j1/root/data/more
ResolvedDataMore ==
    /\ pc = "finish"
    /\ jail = <<"j", "1">>
    /\ fstab[1].mount = <<"d", "a", "t", "a", "/", "m", "o", "r", "e">>
    /\ ResolvedLine(1) =
         <<"/", "m", "n", "t", "/", "p", "o", "o", "l", "/", "i", "o", "c", "a", "g", "e",
           "/", "j", "a", "i", "l", "s", "/", "j", "1", "/", "r", "o", "o", "t", "/",
           "d", "a", "t", "a", "/", "m", "o", "r", "e">>

\* C10 (calls): every middleware call a run has issued is jail.get_iocroot or
\* jail.fstab with action LIST
OnlyReadingCalls ==
    \A k \in Indices(calls) :
      \/ calls[k].func = "jail.get_iocroot"
      \/ calls[k].func = "jail.fstab" /\ calls[k].action = "LIST"

====
